---------------------------- MODULE Spec2Model ----------------------------
(***************************************************************************)
(* A model of the fiszki backend (src/main.py): the request handlers over  *)
(* the tables levels, questions, answers, users and admins, the admin      *)
(* bearer token (create_access_token / get_current_admin) and the bcrypt   *)
(* password helpers.                                                       *)
(*                                                                         *)
(* An optional value (Python's None or a value) is a set with at most one  *)
(* element.  A response is the record resp = [op, status, body], the body  *)
(* kept where a property reads it (for a delete of a level or a question,  *)
(* the keys of the rows its cascade deleted); an                           *)
(* exception no handler catches (IntegrityError, AttributeError,           *)
(* ValueError) is the status 500 with the request's transaction rolled     *)
(* back.                                                                   *)
(***************************************************************************)
EXTENDS Integers, FiniteSets, Sequences, Bags, TLC

\* ------------------------------------------------------------------ bounds
MaxLevels == 2
MaxQuestions == 2
MaxAnswers == 1
MaxUsers == 2
MaxProgress == 1
MaxClock == 90
TickStep == 30
MaxTokens == 1
MaxInFlight == 1

\* ------------------------------------------------------- program constants
ACCESS_TOKEN_EXPIRE_MINUTES == 60
SECRET_KEY == "jnUubi5NNKDkRd2neldQRikDcOeQ5MagGnRvsxki7sQ"
RESET_CODE == "1111"

\* ----------------------------------------------------------- input domains
Logins == {"testuser", "ala"}
AdminNames == {"admin1", "root"}
Codes == {RESET_CODE, "0000"}
LevelNames == {"colors", "animals"}
QuestionTexts == {"red", "cat"}
AnswerTexts == {"czerwony"}
Progresses == 0..MaxProgress
Keys == {SECRET_KEY, "forged"}

None == {}
Some(v) == {v}
The(o) == CHOOSE v \in o : TRUE

\* A password is the bytes bcrypt is given (password.encode()): the seeded
\* administrator's, the seeded test user's, a short one, and two of 73 bytes
\* that differ in the last byte only.
BCRYPT_MAX_BYTES == 72
admin == <<"a", "d", "m", "i", "n">>
test123 == <<"t", "e", "s", "t", "1", "2", "3">>
kot == <<"k", "o", "t">>
Filler == [i \in 1..BCRYPT_MAX_BYTES |-> "x"]
LongA == Filler \o <<"a">>
LongB == Filler \o <<"b">>
Passwords == {kot, test123, LongA, LongB}
AdminPasswords == {admin, test123, LongA}

\* ---------------------------------------------------------------- variables
VARIABLES
    schema,     \* how the tables were created: "create_all" or "alembic"
    admins,     \* rows [id_admin, login, password]
    levels,     \* rows [level_id, level_name]
    questions,  \* rows [question_id, level_id, question]
    answers,    \* rows [answer_id, question_id, answer, is_good]
    users,      \* rows [user_id, login, password, progress]
    now,        \* the clock, in minutes
    issued,     \* what admin_login has returned: [token, at], at the clock of the login
    inflight,   \* requests suspended at an await between their reads and their commit
    resp        \* the last response: [op, status, body]

tables == <<admins, levels, questions, answers, users>>
vars == <<schema, admins, levels, questions, answers, users, now, issued, inflight, resp>>

\* ------------------------------------------------------------ bcrypt helpers
\* bcrypt reads at most the first BCRYPT_MAX_BYTES bytes of a password.  Given a
\* longer one, bcrypt before 5.0 hashes and checks that prefix; bcrypt 5.0 and
\* later raise ValueError from hashpw and from checkpw, which no handler
\* catches.  The build pins no version: a handler given a longer password
\* takes either course.
Min(a, b) == IF a < b THEN a ELSE b
Read(password) == SubSeq(password, 1, Min(Len(password), BCRYPT_MAX_BYTES))
ValueError(password) == Len(password) > BCRYPT_MAX_BYTES

\* bcrypt.hashpw(password, gensalt()): a hash carries the algorithm tag and is
\* of the bytes read; the salt is not observable through checkpw.
get_password_hash(password) == [alg |-> "bcrypt", of |-> Read(password)]

verify_password(plain_password, hashed_password) ==
    hashed_password.alg = "bcrypt" /\ hashed_password.of = Read(plain_password)

\* ------------------------------------------------------------------- tokens
\* str(int) and int(str) on the ids the model uses.
Digits == <<"1", "2", "3">>
str(n) == Digits[n]
IsNumeric(s) == \E n \in DOMAIN Digits : Digits[n] = s
int(s) == CHOOSE n \in DOMAIN Digits : Digits[n] = s

\* jwt.encode(claims, key): the claims and the key that signed them.
jwt_encode(claims, key) == [sub |-> claims.sub, role |-> claims.role, exp |-> claims.exp, key |-> key]

create_access_token(data, expires_delta, t) ==
    jwt_encode([sub |-> data.sub, role |-> data.role, exp |-> Some(t + expires_delta)], SECRET_KEY)

\* jwt.decode(token, key): JWTError unless the signature verifies under key and
\* the exp claim, when present, is not before the clock.
jwt_decode_ok(token, key, t) ==
    /\ token.key = key
    /\ \A e \in token.exp : ~(e < t)

Unauthorized == [status |-> 401, id_admin |-> None]

get_current_admin_no_role(header, t) ==
    IF header = None THEN Unauthorized
    ELSE LET token == The(header) IN
         IF ~jwt_decode_ok(token, SECRET_KEY, t) THEN Unauthorized
         ELSE IF token.sub = None THEN Unauthorized
         ELSE IF ~IsNumeric(The(token.sub)) THEN [status |-> 500, id_admin |-> None]
         ELSE [status |-> 200, id_admin |-> Some(int(The(token.sub)))]

get_current_admin_no_expiry(header, t) ==
    IF header = None THEN Unauthorized
    ELSE LET token == The(header) IN
         IF token.key # SECRET_KEY THEN Unauthorized
         ELSE IF token.sub = None \/ token.role # Some("admin") THEN Unauthorized
         ELSE IF ~IsNumeric(The(token.sub)) THEN [status |-> 500, id_admin |-> None]
         ELSE [status |-> 200, id_admin |-> Some(int(The(token.sub)))]

get_current_admin_stored_admin(header, t) ==
    IF header = None THEN Unauthorized
    ELSE LET token == The(header) IN
         IF ~jwt_decode_ok(token, SECRET_KEY, t) THEN Unauthorized
         ELSE IF token.sub = None \/ token.role # Some("admin") THEN Unauthorized
         ELSE IF ~IsNumeric(The(token.sub)) THEN [status |-> 500, id_admin |-> None]
         ELSE IF \A a \in admins : a.id_admin # int(The(token.sub)) THEN Unauthorized
         ELSE [status |-> 200, id_admin |-> Some(int(The(token.sub)))]

\* oauth2_scheme answers 401 without an Authorization header; then
\* get_current_admin: 401 on JWTError, a missing sub or a role other than
\* "admin"; int(admin_id) raises ValueError (500) on a non-numeric sub.
get_current_admin(header, t) ==
    IF header = None THEN Unauthorized
    ELSE LET token == The(header) IN
         IF ~jwt_decode_ok(token, SECRET_KEY, t) THEN Unauthorized
         ELSE IF token.sub = None \/ token.role # Some("admin") THEN Unauthorized
         ELSE IF ~IsNumeric(The(token.sub)) THEN [status |-> 500, id_admin |-> None]
         ELSE [status |-> 200, id_admin |-> Some(int(The(token.sub)))]

\* Every token a caller can build from the claims and keys of the model.
SubClaims == {None} \cup {Some(s) : s \in {"1", "2", "x"}}
RoleClaims == {None, Some("admin"), Some("user")}
ExpClaims == {None} \cup {Some(e) : e \in {0, ACCESS_TOKEN_EXPIRE_MINUTES}}
AllTokens == [sub : SubClaims, role : RoleClaims, exp : ExpClaims, key : Keys]

\* What a caller of the admin endpoints can send: no header, a token some
\* admin_login returned, or a token signed without the secret key.
ForgedToken == [sub |-> Some("1"), role |-> Some("admin"), exp |-> None, key |-> "forged"]
IssuedTokens == {i.token : i \in issued}
Headers == {None} \cup {Some(tok) : tok \in IssuedTokens \cup {ForgedToken}}

\* ----------------------------------------------------------------- initial
\* A database holding the seeded administrator (seed_admins over ADMINS_DATA)
\* and no level, question, answer or user; the tables were created by
\* Base.metadata.create_all (models.py: no unique constraint on the user's
\* login or on level_name) or by the alembic migration (UniqueConstraint on
\* both).  Neither enables SQLite's foreign key enforcement.
SeedAdmins == {[id_admin |-> 1, login |-> "admin1", password |-> get_password_hash(admin)]}

Init ==
    /\ schema \in {"create_all", "alembic"}
    /\ admins = SeedAdmins
    /\ levels = {}
    /\ questions = {}
    /\ answers = {}
    /\ users = {}
    /\ now = 0
    /\ issued = {}
    /\ inflight = EmptyBag
    /\ resp = [op |-> "init", status |-> 200, body |-> {}]

Respond(op, status, body) == resp' = [op |-> op, status |-> status, body |-> body]

\* ------------------------------------------------------------------- clock
\* datetime.utcnow() read by create_access_token and by jwt.decode: d minutes pass.
Elapse(d) ==
    /\ now + d <= MaxClock
    /\ now' = now + d
    /\ UNCHANGED <<schema, admins, levels, questions, answers, users, issued, inflight, resp>>

Tick == Elapse(TickStep)

\* ------------------------------------------------------------- admin login
\* select(Admin).where(login == username).scalar_one_or_none(): admins.login
\* is unique in both schemas, so at most one row matches.
admin_login(username, password) ==
    LET found == {a \in admins : a.login = username} IN
    /\ IF found = {}
       THEN /\ Respond("admin_login", 401, {})
            /\ UNCHANGED issued
       ELSE \/ /\ ValueError(password)
               /\ Respond("admin_login", 500, {})
               /\ UNCHANGED issued
            \/ IF ~verify_password(password, The(found).password)
               THEN /\ Respond("admin_login", 401, {})
                    /\ UNCHANGED issued
               ELSE LET token == create_access_token(
                            [sub |-> Some(str(The(found).id_admin)), role |-> Some("admin")],
                            ACCESS_TOKEN_EXPIRE_MINUTES, now) IN
                    /\ Cardinality(issued \cup {[token |-> token, at |-> now]}) <= MaxTokens
                    /\ issued' = issued \cup {[token |-> token, at |-> now]}
                    /\ Respond("admin_login", 200, {token})
    /\ UNCHANGED <<schema, admins, levels, questions, answers, users, now, inflight>>

\* A call of the dependency get_current_admin on any token.
validate(token) ==
    /\ Respond("get_current_admin", get_current_admin(Some(token), now).status,
               {[token |-> token, at |-> now,
                 id_admin |-> get_current_admin(Some(token), now).id_admin]})
    /\ UNCHANGED <<schema, admins, levels, questions, answers, users, now, issued, inflight>>

NextAuth ==
    \/ Tick
    \/ \E username \in AdminNames, password \in AdminPasswords : admin_login(username, password)
    \/ \E token \in AllTokens \cup IssuedTokens : validate(token)

SpecAuth == Init /\ [][NextAuth]_vars

\* ---------------------------------------------------------------- properties
Lifetime == ACCESS_TOKEN_EXPIRE_MINUTES
Accepted(token, t) == get_current_admin(Some(token), t).status = 200
Rejected(token, t) == get_current_admin(Some(token), t).status = 401

\* C3: a token admin_login returned at clock time t is accepted by
\* get_current_admin at every clock time before t + ACCESS_TOKEN_EXPIRE_MINUTES
\* and rejected with 401 at every clock time after it, and a token rejected for
\* expiry is rejected at every later clock time.
C3_TokenValidUntilExpiry ==
    /\ [](\A i \in issued :
            /\ now < i.at + Lifetime => Accepted(i.token, now)
            /\ now > i.at + Lifetime => Rejected(i.token, now))
    /\ [][\A i \in issued : Rejected(i.token, now) => Rejected(i.token, now')]_vars

\* C3's case: get_current_admin has answered 401 for an issued token whose
\* lifetime has passed.
C3_Witness ==
    /\ resp.op = "get_current_admin" /\ resp.status = 401
    /\ \E i \in issued, b \in resp.body : b.token = i.token /\ b.at > i.at + Lifetime

SignatureOk(token) == token.key = SECRET_KEY
Unexpired(token, t) == \A e \in token.exp : e >= t

\* C6: get_current_admin answers 401 for every token whose signature does not
\* verify and for every correctly signed, unexpired token whose role is not
\* "admin" or whose subject is missing; a token it accepts is correctly signed,
\* unexpired, of role "admin" and carries a subject, which is the id_admin
\* returned.
C6_TokenValidation ==
    resp.op = "get_current_admin" =>
        \A b \in resp.body :
            /\ ~SignatureOk(b.token) => resp.status = 401
            /\ (SignatureOk(b.token) /\ Unexpired(b.token, b.at)
                  /\ (b.token.role # Some("admin") \/ b.token.sub = None)) => resp.status = 401
            /\ resp.status = 200 =>
                  /\ SignatureOk(b.token) /\ Unexpired(b.token, b.at)
                  /\ b.token.role = Some("admin")
                  /\ b.token.sub # None
                  /\ \E id \in b.id_admin : b.token.sub = Some(str(id))

\* C6's case: a correctly signed, unexpired token with a subject and a role
\* other than "admin" has been rejected.
C6_Witness ==
    /\ resp.op = "get_current_admin" /\ resp.status = 401
    /\ \E b \in resp.body : /\ SignatureOk(b.token) /\ Unexpired(b.token, b.at)
                            /\ b.token.sub # None /\ b.token.role = Some("user")

CredentialsOk(username, password) ==
    \E a \in admins : a.login = username /\ a.password.alg = "bcrypt" /\ a.password.of = password

\* C7: admin_login answers 200 with a token exactly when the username names a
\* stored Admin row whose stored password is a hash of the submitted password;
\* the token's subject is that admin's id and its role is "admin".  Otherwise it
\* answers 401, returns no token and changes nothing.
C7_AdminLogin ==
    [][\A username \in AdminNames, password \in AdminPasswords :
         (resp'.op = "admin_login" /\ admin_login(username, password)) =>
           IF CredentialsOk(username, password)
           THEN /\ resp'.status = 200
                /\ \E token \in resp'.body :
                     /\ \E a \in admins : a.login = username /\ token.sub = Some(str(a.id_admin))
                     /\ token.role = Some("admin")
                     /\ token \in {i.token : i \in issued'}
                /\ UNCHANGED tables
           ELSE /\ resp'.status = 401 /\ resp'.body = {}
                /\ UNCHANGED <<tables, issued>>]_vars

\* C7's case: a login with the seeded administrator's credentials has returned
\* a token.
C7_Witness ==
    /\ resp.op = "admin_login" /\ resp.status = 200
    /\ \E token \in resp.body : token.sub = Some("1") /\ token.role = Some("admin")


\* ============================================================ user endpoints
\* An INTEGER PRIMARY KEY column of SQLite: a new row takes the largest key + 1.
Max(S) == CHOOSE m \in S : \A n \in S : n <= m
NextId(ids) == IF ids = {} THEN 1 ELSE Max(ids) + 1

UserIds == {u.user_id : u \in users}
UserInputIds == 1..(MaxUsers + 1)

\* db.get(User, user_id): the row with that primary key, or None.
GetUser(user_id) == {u \in users : u.user_id = user_id}
\* select(User).where(User.login == login): every row holding the login;
\* scalar_one_or_none raises MultipleResultsFound when there are several.
UsersByLogin(login) == {u \in users : u.login = login}

\* users.login carries a unique constraint only in the alembic schema.
LoginUnique == schema = "alembic"
\* INSERT INTO users: IntegrityError, and nothing stored, when the constraint
\* is there and some row already holds the login.
InsertUserOk(table, login) == LoginUnique => \A u \in table : u.login # login
InsertUser(table, login, hashed_password) ==
    table \cup {[user_id |-> NextId({u.user_id : u \in table}), login |-> login,
                 password |-> hashed_password, progress |-> 0]}

UNCHANGED_but_users == UNCHANGED <<schema, admins, levels, questions, answers, now, issued, inflight>>
ReadOnly == UNCHANGED <<schema, admins, levels, questions, answers, users, now, issued, inflight>>

get_user_by_id(user_id) ==
    /\ IF GetUser(user_id) = {}
       THEN Respond("get_user_by_id", 404, {})
       ELSE Respond("get_user_by_id", 200, {})
    /\ ReadOnly

update_user_progress_by_id_add(user_id, new_progress) ==
    /\ IF GetUser(user_id) = {}
       THEN /\ Respond("update_user_progress_by_id", 404, {})
            /\ UNCHANGED users
       ELSE LET user == The(GetUser(user_id))
                updated == [user EXCEPT !.progress = user.progress + new_progress] IN
            /\ users' = (users \ {user}) \cup {updated}
            /\ Respond("update_user_progress_by_id", 200, {})
    /\ UNCHANGED_but_users

update_user_progress_by_id(user_id, new_progress) ==
    /\ IF GetUser(user_id) = {}
       THEN /\ Respond("update_user_progress_by_id", 404, {})
            /\ UNCHANGED users
       ELSE LET user == The(GetUser(user_id))
                updated == [user EXCEPT !.progress = new_progress] IN
            /\ users' = (users \ {user}) \cup {updated}
            /\ Respond("update_user_progress_by_id", 200, {})
    /\ UNCHANGED_but_users

register_user(login, password) ==
    /\ IF Cardinality(UsersByLogin(login)) > 1
       THEN /\ Respond("register_user", 500, {})
            /\ UNCHANGED users
       ELSE IF UsersByLogin(login) # {}
       THEN /\ Respond("register_user", 400, {})
            /\ UNCHANGED users
       ELSE \/ /\ ValueError(password)
               /\ Respond("register_user", 500, {})
               /\ UNCHANGED users
            \/ /\ NextId(UserIds) <= MaxUsers
               /\ users' = InsertUser(users, login, get_password_hash(password))
               /\ Respond("register_user", 200, {})
    /\ UNCHANGED_but_users

login_user(login, password) ==
    /\ IF Cardinality(UsersByLogin(login)) > 1
       THEN Respond("login_user", 500, {})
       ELSE IF UsersByLogin(login) = {}
       THEN Respond("login_user", 401, {})
       ELSE \/ ValueError(password) /\ Respond("login_user", 500, {})
            \/ IF ~verify_password(password, The(UsersByLogin(login)).password)
               THEN Respond("login_user", 401, {})
               ELSE Respond("login_user", 200, UsersByLogin(login))
    /\ ReadOnly

\* schemas.UserChangePasswordIn declares new_password only: reading
\* data.old_password raises AttributeError once the user is found.
change_password(user_id, new_password) ==
    /\ IF GetUser(user_id) = {}
       THEN Respond("change_password", 404, {})
       ELSE Respond("change_password", 500, {})
    /\ ReadOnly

\* schemas.UserChangeLoginIn declares new_login only: reading data.password
\* raises AttributeError once the user is found.
change_login(user_id, new_login) ==
    /\ IF GetUser(user_id) = {}
       THEN Respond("change_login", 404, {})
       ELSE Respond("change_login", 500, {})
    /\ ReadOnly

reset_password_user_first(login, code, new_password) ==
    /\ IF Cardinality(UsersByLogin(login)) > 1
       THEN /\ Respond("reset_password", 500, {})
            /\ UNCHANGED users
       ELSE IF UsersByLogin(login) = {}
       THEN /\ Respond("reset_password", 404, {})
            /\ UNCHANGED users
       ELSE IF code # RESET_CODE
       THEN /\ Respond("reset_password", 400, {})
            /\ UNCHANGED users
       ELSE LET user == The(UsersByLogin(login))
                updated == [user EXCEPT !.password = get_password_hash(new_password)] IN
            \/ /\ ValueError(new_password)
               /\ Respond("reset_password", 500, {})
               /\ UNCHANGED users
            \/ /\ users' = (users \ {user}) \cup {updated}
               /\ Respond("reset_password", 200, {})
    /\ UNCHANGED_but_users

reset_password(login, code, new_password) ==
    /\ IF code # RESET_CODE
       THEN /\ Respond("reset_password", 400, {})
            /\ UNCHANGED users
       ELSE IF Cardinality(UsersByLogin(login)) > 1
       THEN /\ Respond("reset_password", 500, {})
            /\ UNCHANGED users
       ELSE IF UsersByLogin(login) = {}
       THEN /\ Respond("reset_password", 404, {})
            /\ UNCHANGED users
       ELSE LET user == The(UsersByLogin(login))
                updated == [user EXCEPT !.password = get_password_hash(new_password)] IN
            \/ /\ ValueError(new_password)
               /\ Respond("reset_password", 500, {})
               /\ UNCHANGED users
            \/ /\ users' = (users \ {user}) \cup {updated}
               /\ Respond("reset_password", 200, {})
    /\ UNCHANGED_but_users

\* ---------------------------------------------- requests suspended at an await
\* A handler is a coroutine: between its awaited reads and its awaited commit
\* other requests run, each in its own session.  A suspended request keeps what
\* it read: the inputs it will write and the rows its delete cascade loaded.
\* Two requests with the same inputs are two requests: inflight is a bag.
Req(op, id, num, text, secret, qids, aids) ==
    [op |-> op, id |-> id, num |-> num, text |-> text, secret |-> secret, qids |-> qids, aids |-> aids]
Suspend(r) ==
    /\ BagCardinality(inflight) < MaxInFlight
    /\ inflight' = inflight (+) SetToBag({r})
Resume(r) == inflight' = inflight (-) SetToBag({r})

\* register_user up to `await db.commit()`: the login was free when it looked
\* and the password was hashed.
register_user_await(login, password) ==
    /\ UsersByLogin(login) = {}
    /\ Suspend(Req("register_user", 0, 0, login, password, {}, {}))
    /\ UNCHANGED <<schema, admins, levels, questions, answers, users, now, issued, resp>>

\* ... and its commit: the INSERT, against the table as it is by then.
register_user_commit(r) ==
    /\ r.op = "register_user"
    /\ Resume(r)
    /\ IF InsertUserOk(users, r.text)
       THEN /\ NextId(UserIds) <= MaxUsers
            /\ users' = InsertUser(users, r.text, get_password_hash(r.secret))
            /\ Respond("register_user", 200, {})
       ELSE /\ Respond("register_user", 500, {})
            /\ UNCHANGED users
    /\ UNCHANGED <<schema, admins, levels, questions, answers, now, issued>>

\* ============================================================ admin: users
Auth(header) == get_current_admin(header, now)
\* The dependency get_current_admin raised: the handler body never runs.
Denied(op, header) ==
    /\ Auth(header).status # 200
    /\ Respond(op, Auth(header).status, {})
    /\ UNCHANGED <<schema, admins, levels, questions, answers, users, now, issued, inflight>>

\* The step answered for the handler op; the headers get_current_admin accepts.
Did(op) == resp'.op = op
Admitted == {header \in Headers : Auth(header).status = 200}

admin_get_users(header) ==
    \/ Denied("admin_get_users", header)
    \/ /\ Auth(header).status = 200
       /\ Respond("admin_get_users", 200, {})
       /\ ReadOnly

admin_reset_progress(header, user_id) ==
    \/ Denied("admin_reset_progress", header)
    \/ /\ Auth(header).status = 200
       /\ IF GetUser(user_id) = {}
          THEN /\ Respond("admin_reset_progress", 404, {})
               /\ UNCHANGED users
          ELSE LET user == The(GetUser(user_id))
                   updated == [user EXCEPT !.progress = 0] IN
               /\ users' = (users \ {user}) \cup {updated}
               /\ Respond("admin_reset_progress", 200, {})
       /\ UNCHANGED_but_users

admin_delete_user_unguarded(header, user_id) ==
    /\ IF GetUser(user_id) = {}
       THEN /\ Respond("admin_delete_user", 404, {})
            /\ UNCHANGED users
       ELSE /\ users' = users \ GetUser(user_id)
            /\ Respond("admin_delete_user", 200, {})
    /\ UNCHANGED_but_users

admin_delete_user(header, user_id) ==
    \/ Denied("admin_delete_user", header)
    \/ /\ Auth(header).status = 200
       /\ IF GetUser(user_id) = {}
          THEN /\ Respond("admin_delete_user", 404, {})
               /\ UNCHANGED users
          ELSE /\ users' = users \ GetUser(user_id)
               /\ Respond("admin_delete_user", 200, {})
       /\ UNCHANGED_but_users

NextUsers ==
    \/ \E user_id \in UserInputIds : get_user_by_id(user_id)
    \/ \E user_id \in UserInputIds, new_progress \in Progresses :
           update_user_progress_by_id(user_id, new_progress)
    \/ \E login \in Logins, password \in Passwords : register_user(login, password)
    \/ \E login \in Logins, password \in Passwords : login_user(login, password)
    \/ \E user_id \in UserInputIds, new_password \in Passwords : change_password(user_id, new_password)
    \/ \E user_id \in UserInputIds, new_login \in Logins : change_login(user_id, new_login)
    \/ \E login \in Logins, code \in Codes, new_password \in Passwords :
           reset_password(login, code, new_password)
    \/ \E login \in Logins, password \in Passwords : register_user_await(login, password)
    \/ \E r \in BagToSet(inflight) : register_user_commit(r)

SpecUsers == Init /\ [][NextUsers]_vars

\* C1: register_user with a login that some user row already holds answers 400
\* and leaves the users table as it was.
C1_RegisterExistingLogin ==
    [][\A login \in Logins, password \in Passwords :
         (resp'.op = "register_user" /\ UsersByLogin(login) # {} /\ register_user(login, password))
             => (resp'.status = 400 /\ users' = users)]_vars

\* C4: reset_password with a code other than RESET_CODE answers 400, whether or
\* not the login names a user, and changes no user row.
C4_ResetWrongCode ==
    [][\A login \in Logins, code \in Codes, new_password \in Passwords :
         (resp'.op = "reset_password" /\ code # RESET_CODE
            /\ reset_password(login, code, new_password))
             => (resp'.status = 400 /\ users' = users)]_vars

\* C4's case: a reset has been refused with 400 while a user row exists whose
\* password the request named.
C4_Witness ==
    /\ resp.op = "reset_password" /\ resp.status = 400
    /\ users # {}

\* C13: login_user changes no table and issues no token; for a login no user
\* holds it answers 401; for a user whose stored password is the hash of P it
\* answers 200 with that user's row when given P, and 401 when given any
\* password other than P.
C13_RegisterLoginRoundTrip ==
    [][\A login \in Logins, password \in Passwords :
         (resp'.op = "login_user" /\ login_user(login, password)) =>
            /\ UNCHANGED <<tables, issued>>
            /\ UsersByLogin(login) = {} => resp'.status = 401
            /\ \A u \in UsersByLogin(login), P \in Passwords :
                  u.password = get_password_hash(P) =>
                     IF password = P
                     THEN resp'.status = 200 /\ resp'.body = {u}
                     ELSE resp'.status = 401]_vars

\* C15: change_login for an existing user answers 400 and changes no user row
\* when another user holds the new login; otherwise it answers 400 and changes
\* nothing (a wrong password) or answers 200 and changes that user's login, and
\* nothing else, to the new login (the user's own current login included).
C15_ChangeLogin ==
    [][\A user_id \in UserInputIds, new_login \in Logins :
         (resp'.op = "change_login" /\ GetUser(user_id) # {} /\ change_login(user_id, new_login)) =>
            IF \E v \in users : v.login = new_login /\ v.user_id # user_id
            THEN resp'.status = 400 /\ users' = users
            ELSE \/ resp'.status = 400 /\ users' = users
                 \/ /\ resp'.status = 200
                    /\ users' = (users \ GetUser(user_id))
                                    \cup {[The(GetUser(user_id)) EXCEPT !.login = new_login]}]_vars

\* C16: reset_password with RESET_CODE answers 404 and changes nothing when no
\* user holds the login; when one does it answers 200, after which the new
\* password verifies against that user's stored password and the password the
\* user had, when different from the new one, no longer does, the user's login
\* and progress are as before and every other user's row is unchanged.
C16_ResetPassword ==
    [][\A login \in Logins, new_password \in Passwords :
         (resp'.op = "reset_password" /\ reset_password(login, RESET_CODE, new_password)) =>
            IF UsersByLogin(login) = {}
            THEN resp'.status = 404 /\ UNCHANGED tables
            ELSE /\ resp'.status = 200
                 /\ \A u \in UsersByLogin(login) :
                       \E v \in users' :
                          /\ v.user_id = u.user_id /\ v.login = u.login /\ v.progress = u.progress
                          /\ verify_password(new_password, v.password)
                          /\ \A old \in Passwords :
                                (old # new_password /\ u.password = get_password_hash(old))
                                    => ~verify_password(old, v.password)
                 /\ \A u \in users : u.login # login => u \in users'
                 /\ {v.user_id : v \in users'} = UserIds
                 /\ UNCHANGED <<admins, levels, questions, answers>>]_vars

\* C19: change_password for an existing user answers 400 and leaves the stored
\* password as it was (a wrong old password), or answers 200 and stores a hash
\* the new password verifies against; the user's login and progress and every
\* other user's row are unchanged either way.
C19_ChangePassword ==
    [][\A user_id \in UserInputIds, new_password \in Passwords :
         (resp'.op = "change_password" /\ GetUser(user_id) # {}
            /\ change_password(user_id, new_password)) =>
            \/ resp'.status = 400 /\ users' = users
            \/ /\ resp'.status = 200
               /\ \E hashed \in {get_password_hash(p) : p \in Passwords} :
                     /\ verify_password(new_password, hashed)
                     /\ users' = (users \ GetUser(user_id))
                                     \cup {[The(GetUser(user_id)) EXCEPT !.password = hashed]}]_vars

\* C10: no two user rows hold the same login.
C10_LoginUnique ==
    \A u \in users, v \in users : u.login = v.login => u = v


\* ========================================================= levels, questions, answers
LevelIds == {l.level_id : l \in levels}
QuestionIds == {q.question_id : q \in questions}
AnswerIds == {a.answer_id : a \in answers}
LevelInputIds == 1..(MaxLevels + 1)
QuestionInputIds == 1..(MaxQuestions + 1)
AnswerInputIds == 1..(MaxAnswers + 1)
IsGood == {0, 1}

\* db.get(Level, id), db.get(Question, id), db.get(Answer, id).
GetLevel(level_id) == {l \in levels : l.level_id = level_id}
GetQuestion(question_id) == {q \in questions : q.question_id = question_id}
GetAnswer(answer_id) == {a \in answers : a.answer_id = answer_id}

\* levels.level_name carries a unique constraint only in the alembic schema.
LevelNameUnique == schema = "alembic"

\* The relationships Level.questions and Question.answers, as a delete loads
\* them to cascade ("all, delete-orphan"): the keys of the children.
LoadQuestions(level_id) == {q.question_id : q \in {x \in questions : x.level_id = level_id}}
LoadAnswers(qids) == {a.answer_id : a \in {x \in answers : x.question_id \in qids}}

\* The flush of a delete: DELETE ... WHERE <primary key> for every object the
\* session marked deleted.  No foreign key is enforced, so rows another
\* session added under a deleted parent stay.
FlushDelete(lids, qids, aids) ==
    /\ levels' = {l \in levels : l.level_id \notin lids}
    /\ questions' = {q \in questions : q.question_id \notin qids}
    /\ answers' = {a \in answers : a.answer_id \notin aids}

\* schemas.AnswerOut and schemas.QuestionOut with selectinload(Question.answers).
AnswerOut(a) == [answer_id |-> a.answer_id, answer |-> a.answer, is_good |-> a.is_good]
QuestionOut(q) ==
    [question_id |-> q.question_id, question |-> q.question,
     answers |-> {AnswerOut(a) : a \in {x \in answers : x.question_id = q.question_id}}]

UNCHANGED_but_levels == UNCHANGED <<schema, admins, questions, answers, users, now, issued, inflight>>
UNCHANGED_but_questions == UNCHANGED <<schema, admins, levels, answers, users, now, issued, inflight>>
UNCHANGED_but_answers == UNCHANGED <<schema, admins, levels, questions, users, now, issued, inflight>>
UNCHANGED_but_content == UNCHANGED <<schema, admins, users, now, issued, inflight>>

\* ---------------------------------------------------------- public endpoints
get_levels ==
    /\ Respond("get_levels", 200, {})
    /\ ReadOnly

get_questions_every_level(level_id) ==
    /\ IF GetLevel(level_id) = {}
       THEN Respond("get_questions", 404, {})
       ELSE Respond("get_questions", 200, {QuestionOut(q) : q \in questions})
    /\ ReadOnly

get_questions(level_id) ==
    /\ IF GetLevel(level_id) = {}
       THEN Respond("get_questions", 404, {})
       ELSE Respond("get_questions", 200, {QuestionOut(q) : q \in {x \in questions : x.level_id = level_id}})
    /\ ReadOnly

\* --------------------------------------------------------------- admin: levels
admin_get_levels(header) ==
    \/ Denied("admin_get_levels", header)
    \/ /\ Auth(header).status = 200
       /\ Respond("admin_get_levels", 200, {})
       /\ ReadOnly

admin_create_level(header, level_name) ==
    \/ Denied("admin_create_level", header)
    \/ /\ Auth(header).status = 200
       /\ IF LevelNameUnique /\ \E l \in levels : l.level_name = level_name
          THEN /\ Respond("admin_create_level", 500, {})
               /\ UNCHANGED levels
          ELSE /\ NextId(LevelIds) <= MaxLevels
               /\ levels' = levels \cup {[level_id |-> NextId(LevelIds), level_name |-> level_name]}
               /\ Respond("admin_create_level", 200, {})
       /\ UNCHANGED_but_levels

admin_update_level(header, level_id, level_name) ==
    \/ Denied("admin_update_level", header)
    \/ /\ Auth(header).status = 200
       /\ IF GetLevel(level_id) = {}
          THEN /\ Respond("admin_update_level", 404, {})
               /\ UNCHANGED levels
          ELSE IF LevelNameUnique /\ \E l \in levels : l.level_name = level_name /\ l.level_id # level_id
          THEN /\ Respond("admin_update_level", 500, {})
               /\ UNCHANGED levels
          ELSE /\ levels' = (levels \ GetLevel(level_id))
                               \cup {[level_id |-> level_id, level_name |-> level_name]}
               /\ Respond("admin_update_level", 200, {})
       /\ UNCHANGED_but_levels

admin_delete_level_keep_answers(header, level_id) ==
    \/ Denied("admin_delete_level", header)
    \/ /\ Auth(header).status = 200
       /\ IF GetLevel(level_id) = {}
          THEN /\ Respond("admin_delete_level", 404, {})
               /\ UNCHANGED <<levels, questions, answers>>
          ELSE /\ FlushDelete({level_id}, LoadQuestions(level_id), {})
               /\ Respond("admin_delete_level", 200,
                          {[qids |-> LoadQuestions(level_id), aids |-> {}]})
       /\ UNCHANGED_but_content

admin_delete_level(header, level_id) ==
    \/ Denied("admin_delete_level", header)
    \/ /\ Auth(header).status = 200
       /\ IF GetLevel(level_id) = {}
          THEN /\ Respond("admin_delete_level", 404, {})
               /\ UNCHANGED <<levels, questions, answers>>
          ELSE /\ FlushDelete({level_id}, LoadQuestions(level_id),
                              LoadAnswers(LoadQuestions(level_id)))
               /\ Respond("admin_delete_level", 200,
                          {[qids |-> LoadQuestions(level_id),
                            aids |-> LoadAnswers(LoadQuestions(level_id))]})
       /\ UNCHANGED_but_content

\* ------------------------------------------------------------ admin: questions
admin_get_questions(header) ==
    \/ Denied("admin_get_questions", header)
    \/ /\ Auth(header).status = 200
       /\ Respond("admin_get_questions", 200, {})
       /\ ReadOnly

InsertQuestion(level_id, question) ==
    /\ NextId(QuestionIds) <= MaxQuestions
    /\ questions' = questions \cup {[question_id |-> NextId(QuestionIds), level_id |-> level_id,
                                     question |-> question]}

admin_create_question_no_check(header, level_id, question) ==
    \/ Denied("admin_create_question", header)
    \/ /\ Auth(header).status = 200
       /\ InsertQuestion(level_id, question)
       /\ Respond("admin_create_question", 200, {})
       /\ UNCHANGED_but_questions

admin_create_question(header, level_id, question) ==
    \/ Denied("admin_create_question", header)
    \/ /\ Auth(header).status = 200
       /\ IF GetLevel(level_id) = {}
          THEN /\ Respond("admin_create_question", 404, {})
               /\ UNCHANGED questions
          ELSE /\ InsertQuestion(level_id, question)
               /\ Respond("admin_create_question", 200, {})
       /\ UNCHANGED_but_questions

admin_update_question(header, question_id, question) ==
    \/ Denied("admin_update_question", header)
    \/ /\ Auth(header).status = 200
       /\ IF GetQuestion(question_id) = {}
          THEN /\ Respond("admin_update_question", 404, {})
               /\ UNCHANGED questions
          ELSE LET row == The(GetQuestion(question_id)) IN
               /\ questions' = (questions \ {row}) \cup {[row EXCEPT !.question = question]}
               /\ Respond("admin_update_question", 200, {})
       /\ UNCHANGED_but_questions

admin_delete_question_every_answer(header, question_id) ==
    \/ Denied("admin_delete_question", header)
    \/ /\ Auth(header).status = 200
       /\ IF GetQuestion(question_id) = {}
          THEN /\ Respond("admin_delete_question", 404, {})
               /\ UNCHANGED <<levels, questions, answers>>
          ELSE /\ FlushDelete({}, {question_id}, AnswerIds)
               /\ Respond("admin_delete_question", 200, {[aids |-> AnswerIds]})
       /\ UNCHANGED_but_content

admin_delete_question(header, question_id) ==
    \/ Denied("admin_delete_question", header)
    \/ /\ Auth(header).status = 200
       /\ IF GetQuestion(question_id) = {}
          THEN /\ Respond("admin_delete_question", 404, {})
               /\ UNCHANGED <<levels, questions, answers>>
          ELSE /\ FlushDelete({}, {question_id}, LoadAnswers({question_id}))
               /\ Respond("admin_delete_question", 200, {[aids |-> LoadAnswers({question_id})]})
       /\ UNCHANGED_but_content

\* -------------------------------------------------------------- admin: answers
admin_get_answers(header) ==
    \/ Denied("admin_get_answers", header)
    \/ /\ Auth(header).status = 200
       /\ Respond("admin_get_answers", 200, {})
       /\ ReadOnly

InsertAnswer(question_id, answer, is_good) ==
    /\ NextId(AnswerIds) <= MaxAnswers
    /\ answers' = answers \cup {[answer_id |-> NextId(AnswerIds), question_id |-> question_id,
                                 answer |-> answer, is_good |-> is_good]}

admin_create_answer(header, question_id, answer, is_good) ==
    \/ Denied("admin_create_answer", header)
    \/ /\ Auth(header).status = 200
       /\ IF GetQuestion(question_id) = {}
          THEN /\ Respond("admin_create_answer", 404, {})
               /\ UNCHANGED answers
          ELSE /\ InsertAnswer(question_id, answer, is_good)
               /\ Respond("admin_create_answer", 200, {})
       /\ UNCHANGED_but_answers

admin_update_answer(header, answer_id, answer, is_good) ==
    \/ Denied("admin_update_answer", header)
    \/ /\ Auth(header).status = 200
       /\ IF GetAnswer(answer_id) = {}
          THEN /\ Respond("admin_update_answer", 404, {})
               /\ UNCHANGED answers
          ELSE LET row == The(GetAnswer(answer_id)) IN
               /\ answers' = (answers \ {row})
                                \cup {[row EXCEPT !.answer = answer, !.is_good = is_good]}
               /\ Respond("admin_update_answer", 200, {})
       /\ UNCHANGED_but_answers

admin_delete_answer_no_check(header, answer_id) ==
    \/ Denied("admin_delete_answer", header)
    \/ /\ Auth(header).status = 200
       /\ answers' = answers \ GetAnswer(answer_id)
       /\ Respond("admin_delete_answer", 200, {})
       /\ UNCHANGED_but_answers

admin_delete_answer(header, answer_id) ==
    \/ Denied("admin_delete_answer", header)
    \/ /\ Auth(header).status = 200
       /\ IF GetAnswer(answer_id) = {}
          THEN /\ Respond("admin_delete_answer", 404, {})
               /\ UNCHANGED answers
          ELSE /\ answers' = answers \ GetAnswer(answer_id)
               /\ Respond("admin_delete_answer", 200, {})
       /\ UNCHANGED_but_answers

\* --------------------------------------- admin requests suspended at an await
\* admin_create_question up to `await db.commit()`: the level was there.
admin_create_question_await(header, level_id, question) ==
    /\ Auth(header).status = 200
    /\ GetLevel(level_id) # {}
    /\ Suspend(Req("admin_create_question", level_id, 0, question, "", {}, {}))
    /\ UNCHANGED <<schema, admins, levels, questions, answers, users, now, issued, resp>>

admin_create_question_commit(r) ==
    /\ r.op = "admin_create_question"
    /\ Resume(r)
    /\ InsertQuestion(r.id, r.text)
    /\ Respond("admin_create_question", 200, {})
    /\ UNCHANGED <<schema, admins, levels, answers, users, now, issued>>

\* admin_create_answer up to `await db.commit()`: the question was there.
admin_create_answer_await(header, question_id, answer, is_good) ==
    /\ Auth(header).status = 200
    /\ GetQuestion(question_id) # {}
    /\ Suspend(Req("admin_create_answer", question_id, is_good, answer, "", {}, {}))
    /\ UNCHANGED <<schema, admins, levels, questions, answers, users, now, issued, resp>>

admin_create_answer_commit(r) ==
    /\ r.op = "admin_create_answer"
    /\ Resume(r)
    /\ InsertAnswer(r.id, r.text, r.num)
    /\ Respond("admin_create_answer", 200, {})
    /\ UNCHANGED <<schema, admins, levels, questions, users, now, issued>>

\* The requests that build and delete the level / question / answer tree, run
\* whole or suspended at their commit.
IssuedHeaders == {Some(token) : token \in IssuedTokens}

NextContent ==
    \/ \E password \in AdminPasswords : admin_login("admin1", password)
    \/ \E header \in IssuedHeaders, level_name \in LevelNames : admin_create_level(header, level_name)
    \/ \E header \in IssuedHeaders, level_id \in LevelInputIds : admin_delete_level(header, level_id)
    \/ \E header \in IssuedHeaders, level_id \in LevelInputIds :
           admin_create_question(header, level_id, "red")
    \/ \E header \in IssuedHeaders, question_id \in QuestionInputIds :
           admin_delete_question(header, question_id)
    \/ \E header \in IssuedHeaders, question_id \in QuestionInputIds :
           admin_create_answer(header, question_id, "czerwony", 1)
    \/ \E header \in IssuedHeaders, answer_id \in AnswerInputIds : admin_delete_answer(header, answer_id)
    \/ \E header \in IssuedHeaders, level_id \in LevelInputIds :
           admin_create_question_await(header, level_id, "red")
    \/ \E r \in BagToSet(inflight) : admin_create_question_commit(r)
    \/ \E header \in IssuedHeaders, question_id \in QuestionInputIds :
           admin_create_answer_await(header, question_id, "czerwony", 1)
    \/ \E r \in BagToSet(inflight) : admin_create_answer_commit(r)

SpecContent == Init /\ [][NextContent]_vars

\* C2: when admin_delete_level(id) deletes an existing level, no question row
\* with level_id = id is left and no answer row is left whose question_id is
\* that of a question the level had.
C2_DeleteLevelCascades ==
    [][(resp'.op = "admin_delete_level" /\ resp'.status = 200) =>
        \A header \in Headers, level_id \in LevelInputIds :
         (admin_delete_level(header, level_id) /\ GetLevel(level_id) # {})
            => /\ GetLevel(level_id)' = {}
               /\ \A q \in questions' : q.level_id # level_id
               /\ \A a \in answers' :
                     \A q \in questions : q.level_id = level_id => a.question_id # q.question_id]_vars

\* C2's case: a level has been deleted whose cascade took a question and an
\* answer of that question.
C2_Witness ==
    /\ resp.op = "admin_delete_level" /\ resp.status = 200
    /\ \E b \in resp.body : b.qids # {} /\ b.aids # {}

\* C8: for an authenticated admin, admin_create_question with a level_id that
\* names no level and admin_create_answer with a question_id that names no
\* question answer 404 and leave every table as it was.
C8_CreateChecksParent ==
    [][\A header \in Headers :
         /\ \A level_id \in LevelInputIds, question \in QuestionTexts :
              (resp'.op = "admin_create_question" /\ Auth(header).status = 200
                 /\ GetLevel(level_id) = {} /\ admin_create_question(header, level_id, question))
                 => (resp'.status = 404 /\ UNCHANGED tables)
         /\ \A question_id \in QuestionInputIds, answer \in AnswerTexts, is_good \in IsGood :
              (resp'.op = "admin_create_answer" /\ Auth(header).status = 200
                 /\ GetQuestion(question_id) = {}
                 /\ admin_create_answer(header, question_id, answer, is_good))
                 => (resp'.status = 404 /\ UNCHANGED tables)]_vars

\* C8's case: admin_create_question has answered 404 for a missing level while
\* another level exists.
C8_Witness ==
    /\ resp.op = "admin_create_question" /\ resp.status = 404
    /\ levels # {}

\* C9: every question's level_id is the key of a level row and every answer's
\* question_id is the key of a question row.
C9_ReferentialIntegrity ==
    /\ \A q \in questions : q.level_id \in LevelIds
    /\ \A a \in answers : a.question_id \in QuestionIds

C11_LevelNameUnique ==
    \A l \in levels, m \in levels : l.level_name = m.level_name => l = m

\* ====================================================== the admin endpoints
\* Every handler under /admin/, called with no header, with a token signed
\* without the secret key and with the tokens admin_login returned, fresh and
\* expired (the clock goes from 0 to MaxClock in one step).
NextAdmin ==
    \/ Elapse(MaxClock)
    \/ admin_login("admin1", admin)
    \/ register_user("ala", kot)
    \/ \E header \in Headers : admin_get_levels(header)
    \/ \E header \in Headers : admin_create_level(header, "colors")
    \/ \E header \in Headers, level_id \in LevelInputIds : admin_update_level(header, level_id, "colors")
    \/ \E header \in Headers, level_id \in LevelInputIds : admin_delete_level(header, level_id)
    \/ \E header \in Headers : admin_get_questions(header)
    \/ \E header \in Headers, level_id \in LevelInputIds : admin_create_question(header, level_id, "red")
    \/ \E header \in Headers, question_id \in QuestionInputIds :
           admin_update_question(header, question_id, "red")
    \/ \E header \in Headers, question_id \in QuestionInputIds : admin_delete_question(header, question_id)
    \/ \E header \in Headers : admin_get_answers(header)
    \/ \E header \in Headers, question_id \in QuestionInputIds :
           admin_create_answer(header, question_id, "czerwony", 1)
    \/ \E header \in Headers, answer_id \in AnswerInputIds :
           admin_update_answer(header, answer_id, "czerwony", 1)
    \/ \E header \in Headers, answer_id \in AnswerInputIds : admin_delete_answer(header, answer_id)
    \/ \E header \in Headers : admin_get_users(header)
    \/ \E header \in Headers, user_id \in UserInputIds : admin_reset_progress(header, user_id)
    \/ \E header \in Headers, user_id \in UserInputIds : admin_delete_user(header, user_id)

SpecAdmin == Init /\ [][NextAdmin]_vars

Refused == resp'.status = 401 /\ UNCHANGED tables

\* C5: every /admin/ handler other than /admin/login, called with a header
\* get_current_admin does not accept, answers 401 and leaves every table as it
\* was.
NotAccepted == {header \in Headers : Auth(header).status # 200}
C5_AdminGuard ==
    [][/\ Did("admin_get_levels") =>
            \A header \in NotAccepted : admin_get_levels(header) => Refused
       /\ Did("admin_get_questions") =>
            \A header \in NotAccepted : admin_get_questions(header) => Refused
       /\ Did("admin_get_answers") =>
            \A header \in NotAccepted : admin_get_answers(header) => Refused
       /\ Did("admin_get_users") =>
            \A header \in NotAccepted : admin_get_users(header) => Refused
       /\ Did("admin_create_level") =>
            \A header \in NotAccepted, level_name \in LevelNames :
                admin_create_level(header, level_name) => Refused
       /\ Did("admin_update_level") =>
            \A header \in NotAccepted, level_id \in LevelInputIds, level_name \in LevelNames :
                admin_update_level(header, level_id, level_name) => Refused
       /\ Did("admin_delete_level") =>
            \A header \in NotAccepted, level_id \in LevelInputIds :
                admin_delete_level(header, level_id) => Refused
       /\ Did("admin_create_question") =>
            \A header \in NotAccepted, level_id \in LevelInputIds, question \in QuestionTexts :
                admin_create_question(header, level_id, question) => Refused
       /\ Did("admin_update_question") =>
            \A header \in NotAccepted, question_id \in QuestionInputIds, question \in QuestionTexts :
                admin_update_question(header, question_id, question) => Refused
       /\ Did("admin_delete_question") =>
            \A header \in NotAccepted, question_id \in QuestionInputIds :
                admin_delete_question(header, question_id) => Refused
       /\ Did("admin_create_answer") =>
            \A header \in NotAccepted, question_id \in QuestionInputIds,
               answer \in AnswerTexts, is_good \in IsGood :
                admin_create_answer(header, question_id, answer, is_good) => Refused
       /\ Did("admin_update_answer") =>
            \A header \in NotAccepted, answer_id \in AnswerInputIds,
               answer \in AnswerTexts, is_good \in IsGood :
                admin_update_answer(header, answer_id, answer, is_good) => Refused
       /\ Did("admin_delete_answer") =>
            \A header \in NotAccepted, answer_id \in AnswerInputIds :
                admin_delete_answer(header, answer_id) => Refused
       /\ Did("admin_reset_progress") =>
            \A header \in NotAccepted, user_id \in UserInputIds :
                admin_reset_progress(header, user_id) => Refused
       /\ Did("admin_delete_user") =>
            \A header \in NotAccepted, user_id \in UserInputIds :
                admin_delete_user(header, user_id) => Refused]_vars

\* C5's case: a delete of an existing level, holding a question, has been
\* refused with 401 after the clock passed the lifetime of every issued token.
C5_Witness ==
    /\ resp.op = "admin_delete_level" /\ resp.status = 401
    /\ levels # {} /\ questions # {} /\ users # {}
    /\ issued # {} /\ \A i \in issued : now > i.at + Lifetime

\* ================================================= the endpoints, run whole
\* Every handler that addresses a row by its primary key, with the requests
\* that create the rows, each run from its first line to its response.
NextApi ==
    \/ admin_login("admin1", admin)
    \/ register_user("ala", kot)
    \/ \E header \in IssuedHeaders, level_name \in LevelNames : admin_create_level(header, level_name)
    \/ \E header \in IssuedHeaders, level_id \in LevelInputIds :
           admin_create_question(header, level_id, "red")
    \/ \E header \in IssuedHeaders, question_id \in QuestionInputIds :
           admin_create_answer(header, question_id, "czerwony", 1)
    \/ get_levels
    \/ \E level_id \in LevelInputIds : get_questions(level_id)
    \/ \E user_id \in UserInputIds : get_user_by_id(user_id)
    \/ \E user_id \in UserInputIds : update_user_progress_by_id(user_id, MaxProgress)
    \/ \E user_id \in UserInputIds : change_password(user_id, kot)
    \/ \E user_id \in UserInputIds : change_login(user_id, "testuser")
    \/ \E header \in IssuedHeaders, level_id \in LevelInputIds :
           admin_update_level(header, level_id, "colors")
    \/ \E header \in IssuedHeaders, level_id \in LevelInputIds : admin_delete_level(header, level_id)
    \/ \E header \in IssuedHeaders, question_id \in QuestionInputIds :
           admin_update_question(header, question_id, "red")
    \/ \E header \in IssuedHeaders, question_id \in QuestionInputIds :
           admin_delete_question(header, question_id)
    \/ \E header \in IssuedHeaders, answer_id \in AnswerInputIds :
           admin_update_answer(header, answer_id, "czerwony", 0)
    \/ \E header \in IssuedHeaders, answer_id \in AnswerInputIds : admin_delete_answer(header, answer_id)
    \/ \E header \in IssuedHeaders, user_id \in UserInputIds : admin_reset_progress(header, user_id)
    \/ \E header \in IssuedHeaders, user_id \in UserInputIds : admin_delete_user(header, user_id)

SpecApi == Init /\ [][NextApi]_vars

NotFound == resp'.status = 404 /\ UNCHANGED tables

\* C12: every handler that gets, updates or deletes a level, question, answer
\* or user by its primary key (the admin handlers called by an authenticated
\* admin) answers 404 when no row has the key, and leaves every table as it was.
C12_MissingKeyIs404 ==
    [][/\ Did("get_questions") =>
            \A level_id \in LevelInputIds :
                (GetLevel(level_id) = {} /\ get_questions(level_id)) => NotFound
       /\ Did("get_user_by_id") =>
            \A user_id \in UserInputIds :
                (GetUser(user_id) = {} /\ get_user_by_id(user_id)) => NotFound
       /\ Did("update_user_progress_by_id") =>
            \A user_id \in UserInputIds, new_progress \in Progresses :
                (GetUser(user_id) = {} /\ update_user_progress_by_id(user_id, new_progress)) => NotFound
       /\ Did("change_password") =>
            \A user_id \in UserInputIds, new_password \in Passwords :
                (GetUser(user_id) = {} /\ change_password(user_id, new_password)) => NotFound
       /\ Did("change_login") =>
            \A user_id \in UserInputIds, new_login \in Logins :
                (GetUser(user_id) = {} /\ change_login(user_id, new_login)) => NotFound
       /\ Did("admin_update_level") =>
            \A header \in Admitted, level_id \in LevelInputIds, level_name \in LevelNames :
                (GetLevel(level_id) = {} /\ admin_update_level(header, level_id, level_name)) => NotFound
       /\ Did("admin_delete_level") =>
            \A header \in Admitted, level_id \in LevelInputIds :
                (GetLevel(level_id) = {} /\ admin_delete_level(header, level_id)) => NotFound
       /\ Did("admin_update_question") =>
            \A header \in Admitted, question_id \in QuestionInputIds, question \in QuestionTexts :
                (GetQuestion(question_id) = {} /\ admin_update_question(header, question_id, question))
                    => NotFound
       /\ Did("admin_delete_question") =>
            \A header \in Admitted, question_id \in QuestionInputIds :
                (GetQuestion(question_id) = {} /\ admin_delete_question(header, question_id)) => NotFound
       /\ Did("admin_update_answer") =>
            \A header \in Admitted, answer_id \in AnswerInputIds, answer \in AnswerTexts, is_good \in IsGood :
                (GetAnswer(answer_id) = {} /\ admin_update_answer(header, answer_id, answer, is_good))
                    => NotFound
       /\ Did("admin_delete_answer") =>
            \A header \in Admitted, answer_id \in AnswerInputIds :
                (GetAnswer(answer_id) = {} /\ admin_delete_answer(header, answer_id)) => NotFound
       /\ Did("admin_reset_progress") =>
            \A header \in Admitted, user_id \in UserInputIds :
                (GetUser(user_id) = {} /\ admin_reset_progress(header, user_id)) => NotFound
       /\ Did("admin_delete_user") =>
            \A header \in Admitted, user_id \in UserInputIds :
                (GetUser(user_id) = {} /\ admin_delete_user(header, user_id)) => NotFound]_vars

\* C12's case: a delete of an answer has answered 404 for a key no row has
\* while the tables hold a level, a question, an answer and a user.
C12_Witness ==
    /\ resp.op = "admin_delete_answer" /\ resp.status = 404
    /\ levels # {} /\ questions # {} /\ answers # {} /\ users # {}

\* C14: get_questions for the key of an existing level answers 200 with one
\* entry for each question whose level_id is that key and no other entry; each
\* entry carries the question's text and one nested entry, with its text and
\* is_good, for each answer whose question_id is that question's key and no
\* other; nothing is written.
C14_QuestionsOfLevel ==
    [][\A level_id \in LevelInputIds :
         (resp'.op = "get_questions" /\ GetLevel(level_id) # {} /\ get_questions(level_id)) =>
            /\ resp'.status = 200
            /\ UNCHANGED tables
            /\ \A q \in questions :
                  q.level_id = level_id <=> \E o \in resp'.body : o.question_id = q.question_id
            /\ \A o \in resp'.body :
                  /\ \E q \in questions : q.question_id = o.question_id /\ q.question = o.question
                  /\ \A a \in answers :
                        a.question_id = o.question_id <=>
                            \E n \in o.answers : n.answer_id = a.answer_id
                  /\ \A n \in o.answers :
                        \E a \in answers : /\ a.answer_id = n.answer_id
                                            /\ a.answer = n.answer /\ a.is_good = n.is_good]_vars

\* C14's case: the listing of the level "colors" holds the question "red"
\* nested with the answer "czerwony", is_good 1, while another level holds a
\* question the listing leaves out.
C14_Witness ==
    /\ resp.op = "get_questions" /\ resp.status = 200
    /\ \E o \in resp.body, l \in levels, q \in questions :
          /\ l.level_name = "colors" /\ q.level_id = l.level_id /\ q.question_id = o.question_id
          /\ o.question = "red"
          /\ \E n \in o.answers : n.answer = "czerwony" /\ n.is_good = 1
    /\ \E q \in questions : \A o \in resp.body : o.question_id # q.question_id

\* ======================================================= the progress counter
\* The two handlers that write a user's progress, over two users: the public
\* one takes any integer (here -1..MaxProgress) and no credentials.
ProgressInputs == (0 - 1)..MaxProgress

NextProgress ==
    \/ admin_login("admin1", admin)
    \/ \E login \in Logins, password \in Passwords : register_user(login, password)
    \/ \E user_id \in UserInputIds, new_progress \in ProgressInputs :
           update_user_progress_by_id(user_id, new_progress)
    \/ \E header \in Headers, user_id \in UserInputIds : admin_reset_progress(header, user_id)

SpecProgress == Init /\ [][NextProgress]_vars

\* The table after the progress of the user with key user_id is set to n.
WithProgress(user_id, n) ==
    {IF u.user_id = user_id THEN [u EXCEPT !.progress = n] ELSE u : u \in users}

\* C18: update_user_progress_by_id for an existing user_id and any integer n
\* answers 200 and sets that user's progress to n, leaving the user's login and
\* password, every other user's row and every other table as they were; no
\* credential is asked for.  admin_reset_progress, for an authenticated admin
\* and an existing user_id, does the same with n = 0.
C18_ProgressFrame ==
    [][/\ Did("update_user_progress_by_id") =>
            \A user_id \in UserInputIds, new_progress \in ProgressInputs :
                (GetUser(user_id) # {} /\ update_user_progress_by_id(user_id, new_progress)) =>
                    /\ resp'.status = 200
                    /\ users' = WithProgress(user_id, new_progress)
                    /\ \A v \in GetUser(user_id)' : v.progress = new_progress
                    /\ UNCHANGED <<admins, levels, questions, answers, issued>>
       /\ Did("admin_reset_progress") =>
            \A header \in Admitted, user_id \in UserInputIds :
                (GetUser(user_id) # {} /\ admin_reset_progress(header, user_id)) =>
                    /\ resp'.status = 200
                    /\ users' = WithProgress(user_id, 0)
                    /\ UNCHANGED <<admins, levels, questions, answers, issued>>]_vars

\* C18's case: with no token ever issued, a user's progress has been set to a
\* negative number while another user's row kept a different progress.
C18_Witness ==
    /\ resp.op = "update_user_progress_by_id" /\ resp.status = 200
    /\ issued = {}
    /\ \E u \in users, v \in users : u.progress < 0 /\ v.progress > 0 /\ u.user_id # v.user_id

\* ====================================================== clearing the database
\* seeders/run_seeders.py, run beside the server: clear_database deletes every
\* row of every table; seed_admins, which run_all_seeders reaches only with no
\* admin row left, adds the administrators of ADMINS_DATA (the first key of an
\* emptied table is 1 again).
clear_database ==
    /\ admins' = {}
    /\ levels' = {}
    /\ questions' = {}
    /\ answers' = {}
    /\ users' = {}
    /\ Respond("clear_database", 200, {})
    /\ UNCHANGED <<schema, now, issued, inflight>>

seed_admins ==
    /\ admins = {}
    /\ admins' = SeedAdmins
    /\ Respond("seed_admins", 200, {})
    /\ UNCHANGED <<schema, levels, questions, answers, users, now, issued, inflight>>

NextFresh ==
    \/ Tick
    \/ \E password \in AdminPasswords : admin_login("admin1", password)
    \/ clear_database
    \/ seed_admins
    \/ \E header \in Headers : admin_get_levels(header)
    \/ \E header \in Headers, level_name \in LevelNames : admin_create_level(header, level_name)
    \/ \E header \in Headers, level_id \in LevelInputIds : admin_delete_level(header, level_id)

SpecFresh == Init /\ [][NextFresh]_vars

\* C20: a token admin_login returned is accepted by get_current_admin at every
\* clock time before its expiry whatever the admins table holds, no row with
\* the token's subject included, and an admin-guarded handler called with it
\* then runs: it is not refused and its write is made.
C20_TokenOutlivesAdminRow ==
    /\ [](\A i \in issued : now < i.at + Lifetime => Accepted(i.token, now))
    /\ [][\A i \in issued, level_name \in LevelNames :
            (Did("admin_create_level") /\ now < i.at + Lifetime
               /\ admin_create_level(Some(i.token), level_name)) =>
               /\ resp'.status # 401
               /\ resp'.status = 200 => \E l \in levels' : l \notin levels /\ l.level_name = level_name]_vars

\* C20's case: with the admins table emptied by clear_database, a level has
\* been created with a token issued before and not yet expired.
C20_Witness ==
    /\ resp.op = "admin_create_level" /\ resp.status = 200
    /\ admins = {} /\ levels # {}
    /\ \E i \in issued : now < i.at + Lifetime /\ now > i.at

\* ================================================================ the seeders
\* seeders/seed_data.py, cut to the first rows of each list (every level a
\* seeded question names and every question a seeded answer names is kept).
ADMINS_DATA == {[login |-> "admin1", password |-> admin]}
LEVELS_DATA == {[level_id |-> 1, level_name |-> "weather"],
                [level_id |-> 2, level_name |-> "hellos, goodbyes"]}
QUESTIONS_DATA == {[question_id |-> 1, level_id |-> 1, question |-> "sunny"],
                   [question_id |-> 7, level_id |-> 2, question |-> "hello"]}
ANSWERS_DATA == {[answer_id |-> 1, question_id |-> 1, answer |-> "sloneczny", is_good |-> 1],
                 [answer_id |-> 2, question_id |-> 1, answer |-> "jasny", is_good |-> 0]}
USERS_DATA == {[login |-> "testuser", password |-> test123, progress |-> 0]}

\* The administrators table of the database migrate_data.py copies from: any
\* of two rows, passwords in plain text; its other tables are empty.
SourceAdministrators ==
    SUBSET {[id_admin |-> 1, login |-> "admin1", password |-> admin],
            [id_admin |-> 2, login |-> "root", password |-> test123]}

\* migrate_data: every source row is added under its own key with its password
\* hashed, in one transaction; a key or a login the admins table already holds
\* is an IntegrityError and nothing is stored.
migrate_data(source) ==
    /\ IF \E r \in source, a \in admins : r.id_admin = a.id_admin \/ r.login = a.login
       THEN /\ Respond("migrate_data", 500, {})
            /\ UNCHANGED admins
       ELSE /\ admins' = admins \cup {[id_admin |-> r.id_admin, login |-> r.login,
                                        password |-> get_password_hash(r.password)] : r \in source}
            /\ Respond("migrate_data", 200, {})
    /\ UNCHANGED <<schema, levels, questions, answers, users, now, issued, inflight>>

\* What each seed_* function commits, or its IntegrityError: seed_levels,
\* seed_questions and seed_answers insert under the keys of the seed data,
\* seed_users under the next free key.
SeedLevelsOk(table) ==
    \A d \in LEVELS_DATA, l \in table :
        d.level_id # l.level_id /\ (LevelNameUnique => d.level_name # l.level_name)
SeedQuestionsOk(table) == \A d \in QUESTIONS_DATA, q \in table : d.question_id # q.question_id
SeedAnswersOk(table) == \A d \in ANSWERS_DATA, a \in table : d.answer_id # a.answer_id
SeedUsersOk(table) == \A d \in USERS_DATA : InsertUserOk(table, d.login)
SeedUsers(table) ==
    table \cup {[user_id |-> NextId({u.user_id : u \in table}), login |-> d.login,
                 password |-> get_password_hash(d.password), progress |-> d.progress] : d \in USERS_DATA}

\* run_all_seeders(fresh): create_all changes no existing table; with fresh,
\* clear_database first.  Then select(Admin) ... scalar_one_or_none(), which
\* raises MultipleResultsFound on several rows: one row and not fresh returns
\* without a write; no row seeds admins, levels, questions, answers, users in
\* that order, each in its own transaction, stopping at the first error.
run_all_seeders(fresh) ==
    LET a0 == IF fresh THEN {} ELSE admins
        l0 == IF fresh THEN {} ELSE levels
        q0 == IF fresh THEN {} ELSE questions
        n0 == IF fresh THEN {} ELSE answers
        u0 == IF fresh THEN {} ELSE users
        okL == SeedLevelsOk(l0)
        okQ == okL /\ SeedQuestionsOk(q0)
        okA == okQ /\ SeedAnswersOk(n0)
        okU == okA /\ SeedUsersOk(u0)
    IN  IF Cardinality(a0) > 1
        THEN /\ Respond("run_all_seeders", 500, {[fresh |-> fresh]})
             /\ UNCHANGED <<schema, admins, levels, questions, answers, users, now, issued, inflight>>
        ELSE IF a0 # {}
        THEN /\ Respond("run_all_seeders", 200, {[fresh |-> fresh]})
             /\ UNCHANGED <<schema, admins, levels, questions, answers, users, now, issued, inflight>>
        ELSE /\ admins' = {[id_admin |-> 1, login |-> d.login,
                             password |-> get_password_hash(d.password)] : d \in ADMINS_DATA}
             /\ levels' = IF okL THEN l0 \cup LEVELS_DATA ELSE l0
             /\ questions' = IF okQ THEN q0 \cup QUESTIONS_DATA ELSE q0
             /\ answers' = IF okA THEN n0 \cup ANSWERS_DATA ELSE n0
             /\ users' = IF okU THEN SeedUsers(u0) ELSE u0
             /\ Respond("run_all_seeders", IF okU THEN 200 ELSE 500, {[fresh |-> fresh]})
             /\ UNCHANGED <<schema, now, issued, inflight>>

NextSeed ==
    \/ \E source \in SourceAdministrators : migrate_data(source)
    \/ \E fresh \in BOOLEAN : run_all_seeders(fresh)
    \/ clear_database
    \/ \E password \in AdminPasswords : admin_login("admin1", password)
    \/ \E header \in IssuedHeaders, level_name \in LevelNames : admin_create_level(header, level_name)
    \/ \E login \in Logins : register_user(login, kot)

SpecSeed == Init /\ [][NextSeed]_vars

\* C21: run_all_seeders(fresh = False) on an admins table holding one row or
\* several returns normally and leaves every table as it was.
C21_SeedersNoOp ==
    [][(Did("run_all_seeders") /\ admins # {} /\ run_all_seeders(FALSE))
          => (resp'.status = 200 /\ UNCHANGED tables)]_vars

=============================================================================
